---- MODULE Spec2Model ----
(***************************************************************************)
(* University timetabling solver (schedule.py): solve() generates the      *)
(* events of every subject, creates the CP-SAT boolean variables of every  *)
(* admissible placement, posts the hard constraints, calls the solver and  *)
(* extracts one row per variable whose value is 1.                         *)
(*                                                                         *)
(* The solver is modelled by its contract: it returns any assignment that  *)
(* satisfies every posted constraint, or reports that there is none.       *)
(***************************************************************************)
EXTENDS Integers, Sequences, FiniteSets, TLC

VARIABLES
    DAYS,               \* sequence of day labels (schedule.py:43)
    END_HOUR,           \* exclusive upper bound of the working hours
    F2F_DAYS_AB,        \* day indices on which A,B attend face to face
    F2F_DAYS_CD,        \* day indices on which C,D attend face to face
    SECTION_GROUPS_AC,  \* section names of the A,C bucket
    SECTION_GROUPS_BD,  \* section names of the B,D bucket
    rooms,              \* sequence of Room records
    doctors,            \* function: doctor id -> Doctor record
    subjects,           \* sequence of Subject records
    subject_branch,     \* function: subject id -> branch
    pc,                 \* position of solve()
    events,             \* sequence of Event records
    lecture_pairs,      \* sequence of <<occ_id, eid_AB, eid_CD>>
    ev_i,               \* index of the next event of the placement loop
    x_f2f,              \* keys <<"x_f2f", eid, d, h, r>> of the variables created
    x_vcr,              \* keys <<"x_vcr", eid, d, h>> of the variables created
    x_pair,             \* keys <<"x_pair", eid, d, h, r>> of the block variables
    day_ind,            \* keys <<"day", eid, d>> of the day indicators
    placed_vars,        \* function: eid -> variables counted in its exactly-one
    model,              \* the constraints posted so far
    res,                \* solver status
    value,              \* the variables the solver set to 1
    placements          \* the extracted rows

inputs == <<DAYS, END_HOUR, F2F_DAYS_AB, F2F_DAYS_CD, SECTION_GROUPS_AC,
            SECTION_GROUPS_BD, rooms, doctors, subjects, subject_branch>>
build  == <<events, lecture_pairs, ev_i, x_f2f, x_vcr, x_pair, day_ind,
            placed_vars, model>>
vars   == <<inputs, build, pc, res, value, placements>>

START_HOUR == 8

(***************************************************************************)
(* Sample data of the INPUT block.                                         *)
(***************************************************************************)
Room(id, branch, rtype, capacity) ==
    [id |-> id, branch |-> branch, rtype |-> rtype, capacity |-> capacity]

Doctor(id, name, available_days) ==
    [id |-> id, name |-> name, available_days |-> available_days]

SampleDays == <<"Sun", "Mon", "Tue", "Wed", "Thu">>

SampleRooms ==
    << Room("R1", "Main", "ROOM", 120),
       Room("R2", "Main", "LAB", 40),
       Room("R3", "Main", "LAB", 30),
       Room("R4", "City", "ROOM", 80),
       Room("R5", "City", "LAB", 35) >>

SubjALG ==
    [id |-> "S-ALG", name |-> "Algorithms", level |-> "L1",
     lecture_occurrences |-> 2, lecture_doctor |-> "D_ALG", section_doctor |-> "D_ALG",
     section_is_lab |-> FALSE, section_duration_hours |-> 1,
     capacity_ab |-> 100, capacity_cd |-> 90,
     capacity_sections_ac |-> 30, capacity_sections_bd |-> 30]

SubjNET ==
    [id |-> "S-NET", name |-> "Networks", level |-> "L2",
     lecture_occurrences |-> 1, lecture_doctor |-> "D_NET", section_doctor |-> "D_NET",
     section_is_lab |-> TRUE, section_duration_hours |-> 2,
     capacity_ab |-> 70, capacity_cd |-> 65,
     capacity_sections_ac |-> 25, capacity_sections_bd |-> 25]

SubjDS ==
    [id |-> "S-DS", name |-> "Data Science", level |-> "L3",
     lecture_occurrences |-> 1, lecture_doctor |-> "D_DS", section_doctor |-> "D_DS",
     section_is_lab |-> FALSE, section_duration_hours |-> 2,
     capacity_ab |-> 60, capacity_cd |-> 55,
     capacity_sections_ac |-> 30, capacity_sections_bd |-> 30]

SampleBranch == [s \in {"S-ALG", "S-NET", "S-DS"} |->
                    IF s = "S-DS" THEN "City" ELSE "Main"]

(***************************************************************************)
(* Utility maps of solve().                                                *)
(***************************************************************************)
Range(s) == {s[i] : i \in 1..Len(s)}

room_by_id(r) == CHOOSE room \in Range(rooms) : room.id = r

rooms_by_branch(b) == {room.id : room \in {q \in Range(rooms) : q.branch = b}}

ALL_DAYS == 0..(Len(DAYS) - 1)

ALL_SLOTS == START_HOUR..(END_HOUR - 1)

ev_by_id(eid) == CHOOSE e \in Range(events) : e.eid = eid

(***************************************************************************)
(* Event generation.                                                       *)
(***************************************************************************)
Event(eid, etype, subject_id, level, branch, doctor_id, group_bucket, duration, requires_lab, needs_room) ==
    [eid |-> eid, etype |-> etype, subject_id |-> subject_id, level |-> level,
     branch |-> branch, doctor_id |-> doctor_id, group_bucket |-> group_bucket,
     duration |-> duration, requires_lab |-> requires_lab, needs_room |-> needs_room]

\* the occurrence number left out of the identifier
occ_id_SubjectOnly(subj, occ) == subj.id \o "_L"

occ_id(subj, occ) == subj.id \o "_L" \o ToString(occ + 1)

LectureEvent(subj, occ, bucket) ==
    Event(occ_id(subj, occ) \o "_" \o bucket, "LECTURE", subj.id, subj.level,
          subject_branch[subj.id], subj.lecture_doctor, bucket, 1, "None", "AUTO")

SectionEvent(subj, sname) ==
    Event(subj.id \o "_" \o sname, "SECTION", subj.id, subj.level,
          subject_branch[subj.id], subj.section_doctor, sname,
          subj.section_duration_hours, subj.section_is_lab, "YES")

RECURSIVE Concat(_, _)
\* f[1] \o f[2] \o ... \o f[n]
Concat(f, n) == IF n <= 0 THEN <<>> ELSE Concat(f, n - 1) \o f[n]

LecturesOf(subj) ==
    Concat([k \in 1..subj.lecture_occurrences |->
               << LectureEvent(subj, k - 1, "AB"), LectureEvent(subj, k - 1, "CD") >>],
           subj.lecture_occurrences)

PairsOf(subj) ==
    [k \in 1..subj.lecture_occurrences |->
        << occ_id(subj, k - 1), LectureEvent(subj, k - 1, "AB").eid,
           LectureEvent(subj, k - 1, "CD").eid >>]

SectionsOf(subj) ==
    [k \in 1..Len(SECTION_GROUPS_AC) |-> SectionEvent(subj, SECTION_GROUPS_AC[k])]
    \o [k \in 1..Len(SECTION_GROUPS_BD) |-> SectionEvent(subj, SECTION_GROUPS_BD[k])]

(***************************************************************************)
(* Decision variables.  A variable is named by its key.                    *)
(***************************************************************************)
f2f_var(eid, d, h, r) == <<"x_f2f", eid, d, h, r>>

vcr_var(eid, d, h) == <<"x_vcr", eid, d, h>>

pair_var(eid, d, h, r) == <<"x_pair", eid, d, h, r>>

ind_var(eid, d) == <<"day", eid, d>>

\* the F2F days of the two cohorts exchanged
group_is_f2f_on_day_Swapped(bucket, d) ==
    IF bucket \in {"AB", "S4", "S5", "S6"} THEN d \in F2F_DAYS_CD
    ELSE IF bucket \in {"CD", "S1", "S2", "S3"} THEN d \in F2F_DAYS_AB
    ELSE FALSE

group_is_f2f_on_day(bucket, d) ==
    IF bucket \in {"AB", "S4", "S5", "S6"} THEN d \in F2F_DAYS_AB
    ELSE IF bucket \in {"CD", "S1", "S2", "S3"} THEN d \in F2F_DAYS_CD
    ELSE FALSE

capacity_needed(ev) ==
    LET subj == CHOOSE s \in Range(subjects) : s.id = ev.subject_id
    IN  IF ev.etype = "LECTURE"
        THEN IF ev.group_bucket = "AB" THEN subj.capacity_ab ELSE subj.capacity_cd
        ELSE IF ev.group_bucket \in {"S1", "S2", "S3"}
             THEN subj.capacity_sections_ac
             ELSE subj.capacity_sections_bd

\* every day of the week, whatever the doctor's availability
cand_days_AllDays(ev) == ALL_DAYS

\* Candidate days = doctor availability only
cand_days(ev) == doctors[ev.doctor_id].available_days

\* the capacity test left out
LectureRooms_AnyCapacity(ev) == rooms_by_branch(ev.branch)

\* Rooms a lecture may use on an F2F day: any type, capacity satisfied
LectureRooms(ev) ==
    {r \in rooms_by_branch(ev.branch) : room_by_id(r).capacity >= capacity_needed(ev)}

\* the room type test left out
SectionRooms_AnyType(ev) ==
    {r \in rooms_by_branch(ev.branch) : room_by_id(r).capacity >= capacity_needed(ev)}

\* Rooms a section may use: type and capacity
SectionRooms(ev) ==
    {r \in rooms_by_branch(ev.branch) :
        /\ ~(ev.requires_lab /\ room_by_id(r).rtype # "LAB")
        /\ ~(~ev.requires_lab /\ room_by_id(r).rtype \notin {"LAB", "ROOM"})
        /\ room_by_id(r).capacity >= capacity_needed(ev)}

\* F2F variables of a lecture: available F2F days of its bucket, every slot
LectureF2F(ev) ==
    {f2f_var(ev.eid, d, h, r) :
        d \in {dd \in cand_days(ev) : group_is_f2f_on_day(ev.group_bucket, dd)},
        h \in ALL_SLOTS, r \in LectureRooms(ev)}

\* VCR variables of a lecture: the other available days, every slot
LectureVCR(ev) ==
    {vcr_var(ev.eid, d, h) :
        d \in {dd \in cand_days(ev) : ~group_is_f2f_on_day(ev.group_bucket, dd)},
        h \in ALL_SLOTS}

\* the F2F-day test of sections left out
SectionStarts_AnyDay(ev) ==
    {<<d, h, r>> \in cand_days(ev) \X ALL_SLOTS \X SectionRooms(ev) :
        ~(ev.duration = 2 /\ h + 1 >= END_HOUR)}

\* <<d, h, r>> at which a section may start
SectionStarts(ev) ==
    {<<d, h, r>> \in
        {dd \in cand_days(ev) : group_is_f2f_on_day(ev.group_bucket, dd)}
            \X ALL_SLOTS \X SectionRooms(ev) :
        ~(ev.duration = 2 /\ h + 1 >= END_HOUR)}

EmptyModel ==
    [eq1 |-> {},     \* sum(vars) == 1
     le1 |-> {},     \* sum(vars) <= 1
     imp |-> {},     \* <<p, v>>: v == 1 OnlyEnforceIf p
     link |-> {},    \* <<ind, vars>>: sum >= 1 if ind, sum == 0 if not ind
     zero |-> {},    \* ind == 0
     eq |-> {}]      \* <<a, b>>: a == b

(***************************************************************************)
(* solve(), lines 170-211: the events of every subject.                    *)
(***************************************************************************)
GenerateEvents ==
    /\ pc = "generate"
    /\ IF \E i \in 1..Len(subjects) : subjects[i].id \notin DOMAIN subject_branch
       THEN \* subject_branch[subj.id] raises
            /\ pc' = "KeyError"
            /\ UNCHANGED <<events, lecture_pairs>>
       ELSE /\ events' =
                   Concat([i \in 1..Len(subjects) |-> LecturesOf(subjects[i])],
                          Len(subjects))
                   \o Concat([i \in 1..Len(subjects) |-> SectionsOf(subjects[i])],
                             Len(subjects))
            /\ lecture_pairs' =
                   Concat([i \in 1..Len(subjects) |-> PairsOf(subjects[i])],
                          Len(subjects))
            /\ pc' = IF events' = <<>> THEN "room_conflicts" ELSE "place"
    /\ UNCHANGED <<inputs, ev_i, x_f2f, x_vcr, x_pair, day_ind, placed_vars, model,
                   res, value, placements>>

(***************************************************************************)
(* solve(), lines 253-311: one iteration of the placement loop.            *)
(***************************************************************************)
SetPlaced(eid, vs) ==
    [e \in DOMAIN placed_vars \cup {eid} |-> IF e = eid THEN vs ELSE placed_vars[e]]

PostEq1(m, vs) == [m EXCEPT !.eq1 = @ \cup {vs}]

PlaceLecture(ev) ==
    LET F == LectureF2F(ev)
        V == LectureVCR(ev)
    IN  /\ x_f2f' = x_f2f \cup F
        /\ x_vcr' = x_vcr \cup V
        /\ placed_vars' = SetPlaced(ev.eid, F \cup V)
        /\ model' = PostEq1(model, F \cup V)
        /\ UNCHANGED x_pair

PlaceSection(ev) ==
    LET starts == SectionStarts(ev)
    IN  IF ev.duration = 1
        THEN LET F == {f2f_var(ev.eid, s[1], s[2], s[3]) : s \in starts}
             IN  /\ x_f2f' = x_f2f \cup F
                 /\ placed_vars' = SetPlaced(ev.eid, F)
                 /\ model' = PostEq1(model, F)
                 /\ UNCHANGED <<x_vcr, x_pair>>
        ELSE LET P == {pair_var(ev.eid, s[1], s[2], s[3]) : s \in starts}
                 F == {f2f_var(ev.eid, s[1], s[2], s[3]) : s \in starts}
                      \cup {f2f_var(ev.eid, s[1], s[2] + 1, s[3]) : s \in starts}
                 I == {<<pair_var(ev.eid, s[1], s[2], s[3]),
                         f2f_var(ev.eid, s[1], s[2], s[3])>> : s \in starts}
                      \cup {<<pair_var(ev.eid, s[1], s[2], s[3]),
                              f2f_var(ev.eid, s[1], s[2] + 1, s[3])>> : s \in starts}
             IN  /\ x_f2f' = x_f2f \cup F
                 /\ x_pair' = x_pair \cup P
                 /\ placed_vars' = SetPlaced(ev.eid, P)
                 /\ model' = PostEq1([model EXCEPT !.imp = @ \cup I], P)
                 /\ UNCHANGED x_vcr

PlaceEvent ==
    /\ pc = "place"
    /\ LET ev == events[ev_i]
       IN  IF ev.doctor_id \notin DOMAIN doctors
           THEN \* doctors[ev.doctor_id] raises
                /\ pc' = "KeyError"
                /\ placed_vars' = SetPlaced(ev.eid, {})
                /\ UNCHANGED <<ev_i, x_f2f, x_vcr, x_pair, model>>
           ELSE /\ IF ev.etype = "LECTURE" THEN PlaceLecture(ev) ELSE PlaceSection(ev)
                /\ ev_i' = ev_i + 1
                /\ pc' = IF ev_i = Len(events) THEN "room_conflicts" ELSE "place"
    /\ UNCHANGED <<inputs, events, lecture_pairs, day_ind, res, value, placements>>

(***************************************************************************)
(* solve(), lines 314-360: the conflict constraints.                       *)
(***************************************************************************)
PostLe1(m, css) == [m EXCEPT !.le1 = @ \cup (css \ {{}})]

\* the room constraint posted per event instead of per room
same_slot_room_vars_PerEvent(d, h, r) ==
    {k \in x_f2f : k[3] = d /\ k[4] = h /\ k[5] = r
                   /\ k[2] = (CHOOSE q \in x_f2f : q[3] = d /\ q[4] = h /\ q[5] = r)[2]}

\* No double-booking in the same room at the same time
same_slot_room_vars(d, h, r) ==
    {k \in x_f2f : k[3] = d /\ k[4] = h /\ k[5] = r}

RoomConflicts ==
    /\ pc = "room_conflicts"
    /\ model' = PostLe1(model,
           {same_slot_room_vars(d, h, r) :
               d \in ALL_DAYS, h \in ALL_SLOTS, r \in {q.id : q \in Range(rooms)}})
    /\ pc' = "doctor_conflicts"
    /\ UNCHANGED <<inputs, events, lecture_pairs, ev_i, x_f2f, x_vcr, x_pair, day_ind,
                   placed_vars, res, value, placements>>

\* the VCR variables left out of the doctor and the level constraints
VarsAt_F2FOnly(E, d, h) ==
    {k \in x_f2f : /\ k[3] = d /\ k[4] = h
                   /\ \E ev \in E : ev.eid = k[2] /\ k[5] \in rooms_by_branch(ev.branch)}

\* The variables of the events in E at (d, h): F2F in the rooms of the
\* event's branch, and VCR
VarsAt(E, d, h) ==
    {k \in x_f2f : /\ k[3] = d /\ k[4] = h
                   /\ \E ev \in E : ev.eid = k[2] /\ k[5] \in rooms_by_branch(ev.branch)}
    \cup {k \in x_vcr : k[3] = d /\ k[4] = h /\ \E ev \in E : ev.eid = k[2]}

\* the VCR variables left out of the doctor constraint
overlap_vars_F2FOnly(d, h, doc_id) ==
    {k \in x_f2f : k[3] = d /\ k[4] = h /\ ev_by_id(k[2]).doctor_id = doc_id}

\* No doctor overlaps (F2F and VCR combined)
overlap_vars(d, h, doc_id) ==
    VarsAt({ev \in Range(events) : ev.doctor_id = doc_id}, d, h)

DoctorConflicts ==
    /\ pc = "doctor_conflicts"
    /\ model' = PostLe1(model,
           {overlap_vars(d, h, doc_id) :
               d \in ALL_DAYS, h \in ALL_SLOTS, doc_id \in DOMAIN doctors})
    /\ pc' = "level_conflicts"
    /\ UNCHANGED <<inputs, events, lecture_pairs, ev_i, x_f2f, x_vcr, x_pair, day_ind,
                   placed_vars, res, value, placements>>

\* the level constraint left out
level_vars_None(d, h, lvl) == {}

\* No level overlaps
level_vars(d, h, lvl) ==
    VarsAt({ev \in Range(events) : ev.level = lvl}, d, h)

LevelConflicts ==
    /\ pc = "level_conflicts"
    /\ model' = PostLe1(model,
           {level_vars(d, h, lvl) :
               d \in ALL_DAYS, h \in ALL_SLOTS, lvl \in {ev.level : ev \in Range(events)}})
    /\ pc' = "pairs"
    /\ UNCHANGED <<inputs, events, lecture_pairs, ev_i, x_f2f, x_vcr, x_pair, day_ind,
                   placed_vars, res, value, placements>>

(***************************************************************************)
(* solve(), lines 364-408: lecture pair same-day constraint.               *)
(***************************************************************************)
\* All placement vars of eid that are on day d (F2F rooms + VCR slots)
vars_day(eid, d) ==
    {k \in x_f2f : /\ k[2] = eid /\ k[3] = d /\ k[4] \in ALL_SLOTS
                   /\ k[5] \in rooms_by_branch(ev_by_id(eid).branch)}
    \cup {k \in x_vcr : k[2] = eid /\ k[3] = d /\ k[4] \in ALL_SLOTS}

link_day_indicator(m, eid, d) ==
    IF vars_day(eid, d) # {}
    THEN [m EXCEPT !.link = @ \cup {<<ind_var(eid, d), vars_day(eid, d)>>}]
    ELSE [m EXCEPT !.zero = @ \cup {ind_var(eid, d)}]

RECURSIVE LinkAll(_, _)
LinkAll(m, keys) ==
    IF keys = {} THEN m
    ELSE LET k == CHOOSE q \in keys : TRUE
         IN  LinkAll(link_day_indicator(m, k[1], k[2]), keys \ {k})

\* the pairwise equality left out
same_day_None(eid_ab, eid_cd) == {}

\* Pairwise equality per day
same_day(eid_ab, eid_cd) ==
    {<<ind_var(eid_ab, d), ind_var(eid_cd, d)>> : d \in ALL_DAYS}

PairEids == {lecture_pairs[i][2] : i \in 1..Len(lecture_pairs)}
            \cup {lecture_pairs[i][3] : i \in 1..Len(lecture_pairs)}

PairConstraints ==
    /\ pc = "pairs"
    /\ day_ind' = {ind_var(eid, d) : eid \in PairEids, d \in ALL_DAYS}
    /\ LET linked == LinkAll(model, PairEids \X ALL_DAYS)
           sums == {{ind_var(eid, d) : d \in ALL_DAYS} : eid \in PairEids}
           same == UNION {same_day(lecture_pairs[i][2], lecture_pairs[i][3]) :
                             i \in 1..Len(lecture_pairs)}
       IN  model' = [linked EXCEPT !.eq1 = @ \cup sums, !.eq = @ \cup same]
    /\ pc' = "solve"
    /\ UNCHANGED <<inputs, events, lecture_pairs, ev_i, x_f2f, x_vcr, x_pair,
                   placed_vars, res, value, placements>>

(***************************************************************************)
(* The solver.  An assignment is the set T of the variables set to 1.      *)
(***************************************************************************)
Satisfies(T, m) ==
    /\ \A c \in m.eq1 : Cardinality(c \cap T) = 1
    /\ \A c \in m.le1 : Cardinality(c \cap T) <= 1
    /\ \A pv \in m.imp : pv[1] \in T => pv[2] \in T
    /\ \A l \in m.link : IF l[1] \in T THEN l[2] \cap T # {} ELSE l[2] \cap T = {}
    /\ \A z \in m.zero : z \notin T
    /\ \A e \in m.eq : e[1] \in T <=> e[2] \in T

\* Everything the variables of S force to 1
RECURSIVE Closure(_)
Closure(S) ==
    LET n == S \cup {pv[2] : pv \in {q \in model.imp : q[1] \in S}}
    IN  IF n = S THEN S ELSE Closure(n)

\* The at-most-one constraints that new variables take part in still hold in T
AtMostOk(T, new) ==
    \A c \in model.le1 : c \cap new # {} => Cardinality(c \cap T) <= 1

\* The exactly-one constraints over placement variables, and those over day
\* indicators
PlacementSums == {c \in model.eq1 : \A v \in c : v[1] # "day"}

\* Variables that are in no exactly-one constraint
FreeVars == (x_f2f \cup x_vcr \cup x_pair) \ UNION model.eq1

\* The day indicators are determined by the placement variables
Inds(T) == {l[1] : l \in {k \in model.link : k[2] \cap T # {}}}

\* One variable of every exactly-one constraint in cs, added to T
RECURSIVE PlaceAll(_, _)
PlaceAll(cs, T) ==
    IF cs = {} THEN {T}
    ELSE LET c == CHOOSE k \in cs : TRUE
             hit == c \cap T
         IN  IF hit # {}
             THEN IF Cardinality(hit) = 1 THEN PlaceAll(cs \ {c}, T) ELSE {}
             ELSE UNION {PlaceAll(cs \ {c}, T \cup Closure({v})) :
                            v \in {w \in c : AtMostOk(T \cup Closure({w}), Closure({w}))}}

\* Any of the variables in rest, added to T
RECURSIVE AddFree(_, _)
AddFree(rest, T) ==
    IF rest = {} THEN {T}
    ELSE LET v == CHOOSE k \in rest : TRUE
             with == T \cup Closure({v})
         IN  AddFree(rest \ {v}, T)
             \cup (IF AtMostOk(with, Closure({v})) THEN AddFree(rest \ {v}, with) ELSE {})

\* The placement variables that day indicators are linked to, and the
\* exactly-one constraints they are in
LinkedVars == UNION {l[2] : l \in model.link}

LinkedSums == {c \in PlacementSums : c \cap LinkedVars # {}}

\* Every assignment that satisfies the posted constraints.  The search places
\* the events that have day indicators first and drops the placements whose
\* indicators break a constraint, then places the other events, then adds
\* variables that no exactly-one constraint counts; what it finds is kept only
\* if it satisfies every constraint.
Solutions ==
    LET others == PlacementSums \ LinkedSums
        \* no later step touches a linked variable
        decided == LinkedVars \cap (FreeVars \cup UNION others
                                    \cup {pv[2] : pv \in model.imp}) = {}
        dayOk(T) == LET I == Inds(T)
                    IN  /\ \A c \in model.eq1 \ PlacementSums : Cardinality(c \cap I) = 1
                        /\ \A e \in model.eq : e[1] \in I <=> e[2] \in I
        first == PlaceAll(LinkedSums, {})
        kept == IF decided THEN {T \in first : dayOk(T)} ELSE first
        placed == UNION {PlaceAll(others, T) : T \in kept}
        full == UNION {AddFree(FreeVars \ T, T) : T \in placed}
    IN  IF {} \in model.eq1
        THEN {}    \* an empty sum is never 1
        ELSE {S \in {T \cup Inds(T) : T \in full} : Satisfies(S, model)}

(***************************************************************************)
(* solve(), lines 412-420.                                                 *)
(***************************************************************************)
Solve ==
    /\ pc = "solve"
    /\ LET S == Solutions
       IN  \/ \E T \in S :
                /\ value' = T
                /\ res' = "OPTIMAL"
                /\ pc' = "extract"
           \/ /\ S = {}
              /\ res' = "INFEASIBLE"
              /\ pc' = "returned"
              /\ UNCHANGED value
           \/ \* max_time_in_seconds ran out
              /\ res' = "UNKNOWN"
              /\ pc' = "returned"
              /\ UNCHANGED value
    /\ UNCHANGED <<inputs, build, placements>>

(***************************************************************************)
(* solve(), lines 423-451: the rows of the variables with value 1, sorted. *)
(***************************************************************************)
fmt(d, h) == <<DAYS[d + 1], h>>

\* DAYS.index(day_name)
DayIndex(day_name) ==
    CHOOSE i \in ALL_DAYS :
        DAYS[i + 1] = day_name /\ \A j \in ALL_DAYS : DAYS[j + 1] = day_name => i <= j

Row(k) ==
    LET ev == ev_by_id(k[2])
    IN  << ev.branch, fmt(k[3], k[4]), IF k[1] = "x_f2f" THEN k[5] ELSE "VCR",
           ev.subject_id, ev.etype, ev.group_bucket, ev.doctor_id, ev.level >>

\* The strings that are compared, in Python's order
StrOrder == <<"City", "Main", "R1", "R2", "R3", "R4", "R5", "VCR">>

StrRank(str) == CHOOSE i \in 1..Len(StrOrder) : StrOrder[i] = str

sort_key(row) == <<StrRank(row[1]), DayIndex(row[2][1]), row[2][2], StrRank(row[3])>>

TupleLess(a, b) ==
    \E i \in 1..Len(a) : a[i] < b[i] /\ \A j \in 1..(i - 1) : a[j] = b[j]

EventIndex(eid) == CHOOSE i \in 1..Len(events) : events[i].eid = eid

\* Rows are appended in the order of the dictionaries (F2F first, each in the
\* order of the events) and the sort is stable: a row with its sort key and its
\* place in the unsorted list
Keyed(k) ==
    << sort_key(Row(k)) \o <<IF k[1] = "x_f2f" THEN 0 ELSE 1, EventIndex(k[2])>>,
       Row(k) >>

RECURSIVE SortedRows(_)
SortedRows(S) ==
    IF S = {} THEN <<>>
    ELSE LET m == CHOOSE a \in S : \A b \in S : a = b \/ TupleLess(a[1], b[1])
         IN  <<m[2]>> \o SortedRows(S \ {m})

\* the VCR loop of the extraction left out
Ones_F2FOnly(T) == T \cap x_f2f

\* The F2F and the VCR variables whose value is 1
Ones(T) == (T \cap x_f2f) \cup (T \cap x_vcr)

Extract ==
    /\ pc = "extract"
    /\ res \in {"OPTIMAL", "FEASIBLE"}
    /\ LET ones == Ones(value)
       IN  IF \E k \in ones : k[3] \notin ALL_DAYS
           THEN \* DAYS[d] raises
                /\ pc' = "IndexError"
                /\ UNCHANGED placements
           ELSE /\ placements' = SortedRows({Keyed(k) : k \in ones})
                /\ pc' = "done"
    /\ UNCHANGED <<inputs, build, res, value>>

(***************************************************************************)
(* Inputs.                                                                 *)
(***************************************************************************)
\* Days times slots per day
MaxCells == 8

\* <<number of days, slots per day>>
Grids(cells) ==
    {g \in (1..Len(SampleDays)) \X (1..cells) : g[1] * g[2] <= cells}

\* The pattern of the sample: C,D face to face in the first part of the week,
\* A,B in the rest
FirstPart(n) == 0..(((n + 1) \div 2) - 1)

\* A doctor works every day, or every day but one
Availabilities(n) == {0..(n - 1)} \cup ({(0..(n - 1)) \ {d} : d \in 0..(n - 1)} \ {{}})

IsRoom(r) == r.id \in {"R1", "R2", "R4"}

\* One subject with one weekly lecture: Algorithms
OneSubject ==
    {<<[SubjALG EXCEPT !.lecture_occurrences = 1, !.section_duration_hours = dur,
                       !.section_doctor = sd]>> :
        dur \in {1, 2}, sd \in {"D_ALG", "D_NET"}}

\* More events: Algorithms with two weekly lectures, or Algorithms and
\* Networks, two subjects of different levels
MoreEvents ==
    {<<[SubjALG EXCEPT !.section_duration_hours = dur]>> : dur \in {1, 2}}
    \cup
    {<<[SubjALG EXCEPT !.lecture_occurrences = 1],
       [SubjNET EXCEPT !.section_duration_hours = dur, !.lecture_doctor = ld]>> :
        dur \in {1, 2}, ld \in {"D_ALG", "D_NET"}}

\* The state at the entry of solve(): the inputs, and nothing built yet
StartWith(days, end, ab, cd, ac, bd, rs, ds, ss, sb) ==
    /\ DAYS = days
    /\ END_HOUR = end
    /\ F2F_DAYS_CD = cd
    /\ F2F_DAYS_AB = ab
    /\ SECTION_GROUPS_AC = ac
    /\ SECTION_GROUPS_BD = bd
    /\ rooms = rs
    /\ doctors = ds
    /\ subjects = ss
    /\ subject_branch = sb
    /\ pc = "generate"
    /\ events = <<>>
    /\ lecture_pairs = <<>>
    /\ ev_i = 1
    /\ x_f2f = {}
    /\ x_vcr = {}
    /\ x_pair = {}
    /\ day_ind = {}
    /\ placed_vars = <<>>
    /\ model = EmptyModel
    /\ res = "None"
    /\ value = {}
    /\ placements = <<>>

\* One section group per family, the F2F days split as in the source
Start(days, end, rs, ds, ss, sb) ==
    StartWith(days, end, (0..(Len(days) - 1)) \ FirstPart(Len(days)), FirstPart(Len(days)),
              <<"S1">>, <<"S4">>, rs, ds, ss, sb)

SampleDoctors(a, n) ==
    [d \in {"D_ALG", "D_NET"} |->
        IF d = "D_ALG" THEN Doctor(d, "Dr. Algorithms", a)
                       ELSE Doctor(d, "Dr. Networks", 0..(n - 1))]

Init ==
    \E g \in Grids(MaxCells) :
      \E a \in Availabilities(g[1]) :
        \E ss \in OneSubject \cup (IF g \in Grids(MaxCells - 2) THEN MoreEvents ELSE {}) :
            Start(SubSeq(SampleDays, 1, g[1]), START_HOUR + g[2],
                  SelectSeq(SampleRooms, IsRoom), SampleDoctors(a, g[1]), ss, SampleBranch)

\* What the specification calls invalid input
InvalidInput ==
    \/ \E s \in Range(subjects) :
          \/ s.lecture_doctor \notin DOMAIN doctors
          \/ s.section_doctor \notin DOMAIN doctors
          \/ subject_branch[s.id] \notin {r.branch : r \in Range(rooms)}
          \/ s.lecture_occurrences \notin {1, 2}
          \/ s.section_duration_hours \notin {1, 2}
    \/ DAYS = <<>>
    \/ END_HOUR <= START_HOUR

IsCityRoom(r) == r.branch = "City"

\* The inputs of Init with one defect each, on the smaller grids
InitInvalid ==
    \E g \in Grids(MaxCells - 4) :
      LET days == SubSeq(SampleDays, 1, g[1])
          end == START_HOUR + g[2]
          rs == SelectSeq(SampleRooms, IsRoom)
          ds == SampleDoctors(0..(g[1] - 1), g[1])
          alg == [SubjALG EXCEPT !.lecture_occurrences = 1]
      IN  \/ \E d \in {"lecture_doctor", "section_doctor"} :
                Start(days, end, rs, ds, <<[alg EXCEPT ![d] = "D_DS"]>>, SampleBranch)
          \/ Start(days, end, SelectSeq(SampleRooms, IsCityRoom), ds, <<alg>>, SampleBranch)
          \/ \E occ \in {0, 3} :
                Start(days, end, rs, ds, <<[alg EXCEPT !.lecture_occurrences = occ]>>,
                      SampleBranch)
          \/ \E dur \in {0, 3} :
                Start(days, end, rs, ds, <<[alg EXCEPT !.section_duration_hours = dur]>>,
                      SampleBranch)
          \/ Start(<<>>, end, rs, ds, <<alg>>, SampleBranch)
          \/ \E e \in {START_HOUR - 1, START_HOUR} :
                Start(days, e, rs, ds, <<alg>>, SampleBranch)

Next ==
    \/ GenerateEvents
    \/ PlaceEvent
    \/ RoomConflicts
    \/ DoctorConflicts
    \/ LevelConflicts
    \/ PairConstraints
    \/ Solve
    \/ Extract

Spec == Init /\ [][Next]_vars

SpecInvalid == InitInvalid /\ [][Next]_vars

(***************************************************************************)
(* The reference inputs, lines 43-136, and the run of solve() on them.     *)
(***************************************************************************)
DoctorIds == {"D_ALG", "D_NET", "D_DS"}

\* The days of the doctors in the source
ReferenceDays(d) ==
    IF d = "D_ALG" THEN {0, 1, 3} ELSE IF d = "D_NET" THEN {0, 2, 3, 4} ELSE {1, 2, 4}

\* The doctors of the source; those in sun_only work on Sun only
ReferenceDoctors(sun_only) ==
    [d \in DoctorIds |->
        Doctor(d,
               IF d = "D_ALG" THEN "Dr. Algorithms"
               ELSE IF d = "D_NET" THEN "Dr. Networks" ELSE "Dr. DataSci",
               IF d \in sun_only THEN {0} ELSE ReferenceDays(d))]

ReferenceInput(sun_only) ==
    /\ DAYS = SampleDays
    /\ END_HOUR = 18
    /\ F2F_DAYS_AB = {3, 4}
    /\ F2F_DAYS_CD = {0, 1, 2}
    /\ SECTION_GROUPS_AC = <<"S1", "S2", "S3">>
    /\ SECTION_GROUPS_BD = <<"S4", "S5", "S6">>
    /\ rooms = SampleRooms
    /\ doctors = ReferenceDoctors(sun_only)
    /\ subjects = <<SubjALG, SubjNET, SubjDS>>
    /\ subject_branch = SampleBranch

\* The reference inputs, with any of the doctors restricted to Sun
InitRef ==
    \E sun_only \in SUBSET DoctorIds :
        StartWith(SampleDays, 18, {3, 4}, {0, 1, 2}, <<"S1", "S2", "S3">>,
                  <<"S4", "S5", "S6">>, SampleRooms, ReferenceDoctors(sun_only),
                  <<SubjALG, SubjNET, SubjDS>>, SampleBranch)

\* A timetable for the reference inputs: the variable chosen for every event,
\* the block variable for a 2-hour section
ReferenceSchedule ==
    { vcr_var("S-ALG_L1_AB", 0, 8), f2f_var("S-ALG_L1_CD", 0, 9, "R1"),
      f2f_var("S-ALG_L2_AB", 3, 8, "R1"), vcr_var("S-ALG_L2_CD", 3, 9),
      f2f_var("S-ALG_S1", 1, 8, "R1"), f2f_var("S-ALG_S2", 1, 9, "R1"),
      f2f_var("S-ALG_S3", 1, 10, "R1"), f2f_var("S-ALG_S4", 3, 10, "R1"),
      f2f_var("S-ALG_S5", 3, 11, "R1"), f2f_var("S-ALG_S6", 3, 12, "R1"),
      vcr_var("S-NET_L1_AB", 0, 8), f2f_var("S-NET_L1_CD", 0, 10, "R1"),
      pair_var("S-NET_S1", 2, 8, "R2"), pair_var("S-NET_S2", 2, 10, "R2"),
      pair_var("S-NET_S3", 2, 12, "R2"), pair_var("S-NET_S4", 4, 8, "R2"),
      pair_var("S-NET_S5", 4, 10, "R2"), pair_var("S-NET_S6", 4, 12, "R2"),
      vcr_var("S-DS_L1_AB", 1, 8), f2f_var("S-DS_L1_CD", 1, 9, "R4"),
      pair_var("S-DS_S1", 2, 8, "R4"), pair_var("S-DS_S2", 2, 10, "R4"),
      pair_var("S-DS_S3", 2, 12, "R4"), pair_var("S-DS_S4", 4, 8, "R4"),
      pair_var("S-DS_S5", 4, 10, "R4"), pair_var("S-DS_S6", 4, 12, "R4") }

\* The timetable k hours later in the day
MaxShift == 4

Shifted(T, k) == {[v EXCEPT ![4] = @ + k] : v \in T}

\* The chosen variables, the hour variables their blocks force to 1, and the
\* day indicators they determine
Completed(T) == Closure(T) \cup Inds(Closure(T))

Candidates == {Completed(Shifted(ReferenceSchedule, k)) : k \in 0..MaxShift}

\* The solver on a model of the reference size.  Its assignments are far too
\* many to list: it answers with one of Candidates that satisfies every posted
\* constraint, reports infeasibility when an exactly-one sum has no variable
\* (no assignment satisfies that), or runs out of time.
SolveRef ==
    /\ pc = "solve"
    /\ \/ \E T \in {C \in Candidates : Satisfies(C, model)} :
             /\ value' = T
             /\ res' = "OPTIMAL"
             /\ pc' = "extract"
       \/ /\ {} \in model.eq1
          /\ res' = "INFEASIBLE"
          /\ pc' = "returned"
          /\ UNCHANGED value
       \/ \* max_time_in_seconds ran out
          /\ res' = "UNKNOWN"
          /\ pc' = "returned"
          /\ UNCHANGED value
    /\ UNCHANGED <<inputs, build, placements>>

NextRef ==
    \/ GenerateEvents
    \/ PlaceEvent
    \/ RoomConflicts
    \/ DoctorConflicts
    \/ LevelConflicts
    \/ PairConstraints
    \/ SolveRef
    \/ Extract

SpecRef == InitRef /\ [][NextRef]_vars

(***************************************************************************)
(* The extracted schedule.                                                 *)
(***************************************************************************)
Done == pc = "done"

\* The variables that were turned into rows
Emitted == {k \in value : k[1] \in {"x_f2f", "x_vcr"}}

RowsOf(eid) == {k \in Emitted : k[2] = eid}

RowDay(k) == DayIndex(Row(k)[2][1])

RowHour(k) == Row(k)[2][2]

RowRoom(k) == Row(k)[3]

IsF2F(k) == RowRoom(k) # "VCR"

EventSet == Range(events)

Lectures == {ev \in EventSet : ev.etype = "LECTURE"}

Sections == {ev \in EventSet : ev.etype = "SECTION"}

SubjectOf(ev) == CHOOSE s \in Range(subjects) : s.id = ev.subject_id

\* The list holds the rows of the emitted variables and nothing else
RowsAreEmitted ==
    Done => /\ Len(placements) = Cardinality(Emitted)
            /\ Range(placements) = {Row(k) : k \in Emitted}

\* C1 as stated: after a successful solve the list holds exactly one row for
\* every generated event, so its length is the number of events.
C1_OneRowPerEvent ==
    Done => /\ \A ev \in EventSet : Cardinality(RowsOf(ev.eid)) = 1
            /\ Len(placements) = Len(events)

\* C1 amended: after a successful solve the list holds exactly one row for
\* every lecture and every 1-hour section, and at least two rows for every
\* 2-hour section; its length is the number of events when no section lasts
\* 2 hours, and larger otherwise.
C1_RowsPerEvent ==
    Done => /\ RowsAreEmitted
            /\ \A ev \in EventSet :
                  /\ \A k \in RowsOf(ev.eid) : Row(k) \in Range(placements)
                  /\ IF ev.duration = 1
                     THEN Cardinality(RowsOf(ev.eid)) = 1
                     ELSE Cardinality(RowsOf(ev.eid)) >= 2
            /\ IF \A ev \in EventSet : ev.duration = 1
               THEN Len(placements) = Len(events)
               ELSE Len(placements) > Len(events)

C1_Witness ==
    /\ Done
    /\ \E ev \in Sections : ev.duration = 2 /\ Cardinality(RowsOf(ev.eid)) = 2
    /\ \E ev \in Lectures : \E k \in RowsOf(ev.eid) : ~IsF2F(k)

\* C2: in every extracted schedule the AB event and the CD event of every
\* lecture occurrence are placed on the same day.
C2_PairSameDay ==
    Done => \A i \in 1..Len(lecture_pairs) :
                \A ka \in RowsOf(lecture_pairs[i][2]), kc \in RowsOf(lecture_pairs[i][3]) :
                    /\ Row(ka) \in Range(placements)
                    /\ Row(kc) \in Range(placements)
                    /\ RowDay(ka) = RowDay(kc)

\* the lecturer works on two days at least, and two occurrences are placed
C2_Witness ==
    /\ Done
    /\ Len(lecture_pairs) = 2
    /\ \A i \in 1..2 : RowsOf(lecture_pairs[i][2]) # {} /\ RowsOf(lecture_pairs[i][3]) # {}
    /\ \E ka \in RowsOf(lecture_pairs[1][2]), kb \in RowsOf(lecture_pairs[2][2]) :
          RowDay(ka) # RowDay(kb)

\* The cells <<day, hour, room>> of the rows of an event
Cells(eid) == {<<RowDay(k), RowHour(k), RowRoom(k)>> : k \in RowsOf(eid)}

\* C3: in every extracted schedule every 2-hour section occupies exactly two
\* cells: the same day, the same room and two consecutive hours h and h+1 with
\* START_HOUR <= h and h+1 < END_HOUR, and no other cell.
C3_TwoHourBlock ==
    Done => \A ev \in Sections :
                ev.duration = 2 =>
                    \E d \in ALL_DAYS, h \in START_HOUR..(END_HOUR - 2),
                       r \in {q.id : q \in Range(rooms)} :
                        Cells(ev.eid) = {<<d, h, r>>, <<d, h + 1, r>>}

\* C4: in every extracted schedule no two events of the same level occupy the
\* same (day, hour), face to face or remote, both hours of a 2-hour section
\* counted.
C4_NoLevelOverlap ==
    Done => \A k1 \in Emitted, k2 \in Emitted :
                (/\ k1[2] # k2[2]
                 /\ Row(k1)[8] = Row(k2)[8]
                 /\ Row(k1) \in Range(placements)
                 /\ Row(k2) \in Range(placements))
                => ~(RowDay(k1) = RowDay(k2) /\ RowHour(k1) = RowHour(k2))

\* two events of one level and of different doctors share a day
C4_Witness ==
    /\ Done
    /\ \E k1 \in Emitted, k2 \in Emitted :
          /\ Row(k1)[8] = Row(k2)[8]
          /\ Row(k1)[7] # Row(k2)[7]
          /\ RowDay(k1) = RowDay(k2)
          /\ RowHour(k1) + 1 = RowHour(k2)
          /\ ev_by_id(k1[2]).duration = 2

\* C5: in every extracted schedule no instructor has two different events at
\* the same (day, hour), face to face and remote together, both hours of a
\* 2-hour section counted.
C5_NoDoctorOverlap ==
    Done => \A k1 \in Emitted, k2 \in Emitted :
                (/\ k1[2] # k2[2]
                 /\ Row(k1)[7] = Row(k2)[7]
                 /\ Row(k1) \in Range(placements)
                 /\ Row(k2) \in Range(placements))
                => ~(RowDay(k1) = RowDay(k2) /\ RowHour(k1) = RowHour(k2))

\* one doctor has events of two levels on one day
C5_Witness ==
    /\ Done
    /\ \E k1 \in Emitted, k2 \in Emitted :
          /\ Row(k1)[7] = Row(k2)[7]
          /\ Row(k1)[8] # Row(k2)[8]
          /\ RowDay(k1) = RowDay(k2)
          /\ ~IsF2F(k1)

\* C6: in every extracted schedule no room hosts two face-to-face rows at the
\* same (day, hour), the second hour of a 2-hour section included.
C6_NoRoomOverlap ==
    Done => \A k1 \in Emitted, k2 \in Emitted :
                (/\ k1 # k2
                 /\ IsF2F(k1) /\ IsF2F(k2)
                 /\ Row(k1) \in Range(placements)
                 /\ Row(k2) \in Range(placements))
                => ~(/\ RowRoom(k1) = RowRoom(k2)
                     /\ RowDay(k1) = RowDay(k2)
                     /\ RowHour(k1) = RowHour(k2))

\* one room hosts events of two doctors and two levels, one of them in the
\* second hour of a 2-hour section
C6_Witness ==
    /\ Done
    /\ \E k1 \in Emitted, k2 \in Emitted :
          /\ IsF2F(k1) /\ IsF2F(k2)
          /\ RowRoom(k1) = RowRoom(k2)
          /\ Row(k1)[7] # Row(k2)[7]
          /\ Row(k1)[8] # Row(k2)[8]
          /\ ev_by_id(k1[2]).duration = 2
          /\ <<"x_pair", k1[2], k1[3], k1[4] - 1, k1[5]>> \in value

\* C7: in every extracted schedule a lecture placed on day d is face to face,
\* in a room of its branch whose capacity is at least the cohort's, if and only
\* if d is an F2F day of its bucket; on every other day it is remote with no
\* room.
C7_LectureMode ==
    Done => \A ev \in Lectures : \A k \in RowsOf(ev.eid) :
                /\ Row(k) \in Range(placements)
                /\ IF \/ ev.group_bucket = "AB" /\ RowDay(k) \in F2F_DAYS_AB
                      \/ ev.group_bucket = "CD" /\ RowDay(k) \in F2F_DAYS_CD
                   THEN \E room \in Range(rooms) :
                           /\ room.id = RowRoom(k)
                           /\ room.branch = Row(k)[1]
                           /\ room.branch = subject_branch[ev.subject_id]
                           /\ room.capacity >=
                                 IF ev.group_bucket = "AB" THEN SubjectOf(ev).capacity_ab
                                                           ELSE SubjectOf(ev).capacity_cd
                   ELSE RowRoom(k) = "VCR"

\* an AB lecture face to face and its CD lecture remote, where a room of the
\* branch is too small for the cohort
C7_Witness ==
    /\ Done
    /\ \E i \in 1..Len(lecture_pairs) :
          \E ka \in RowsOf(lecture_pairs[i][2]), kc \in RowsOf(lecture_pairs[i][3]) :
              /\ IsF2F(ka)
              /\ ~IsF2F(kc)
              /\ \E room \in Range(rooms) :
                    /\ room.branch = Row(ka)[1]
                    /\ room.capacity < SubjectOf(ev_by_id(ka[2])).capacity_ab

\* C8: in every extracted schedule every row of a section is face to face, on
\* an F2F day of its bucket (S1..S3: F2F_DAYS_CD, S4..S6: F2F_DAYS_AB), in a
\* room of the event's branch that is a LAB when requires_lab is set and whose
\* capacity is at least the section capacity of its bucket family.
C8_SectionPlacement ==
    Done => \A ev \in Sections : \A k \in RowsOf(ev.eid) :
                /\ Row(k) \in Range(placements)
                /\ RowRoom(k) # "VCR"
                /\ \/ ev.group_bucket \in {"S1", "S2", "S3"} /\ RowDay(k) \in F2F_DAYS_CD
                   \/ ev.group_bucket \in {"S4", "S5", "S6"} /\ RowDay(k) \in F2F_DAYS_AB
                /\ \E room \in Range(rooms) :
                      /\ room.id = RowRoom(k)
                      /\ room.branch = subject_branch[ev.subject_id]
                      /\ ev.requires_lab => room.rtype = "LAB"
                      /\ room.capacity >=
                            IF ev.group_bucket \in {"S1", "S2", "S3"}
                            THEN SubjectOf(ev).capacity_sections_ac
                            ELSE SubjectOf(ev).capacity_sections_bd

\* a lab section and a section that needs no lab are both placed, and the
\* branch has a room that is no lab
C8_Witness ==
    /\ Done
    /\ \E e1 \in Sections, e2 \in Sections :
          /\ e1.requires_lab /\ RowsOf(e1.eid) # {}
          /\ ~e2.requires_lab /\ RowsOf(e2.eid) # {}
          /\ \E room \in Range(rooms) : room.branch = e1.branch /\ room.rtype # "LAB"

\* C9: in every extracted schedule the day of every row, face to face or
\* remote, every row of a 2-hour section included, is in the available_days
\* of the event's instructor.
C9_DoctorAvailable ==
    Done => \A k \in Emitted :
                /\ Row(k) \in Range(placements)
                /\ RowDay(k) \in doctors[Row(k)[7]].available_days

\* a doctor who does not work on every day has a remote row, a face-to-face
\* row and the rows of a 2-hour section
C9_Witness ==
    /\ Done
    /\ \E doc \in DOMAIN doctors :
          /\ doctors[doc].available_days # ALL_DAYS
          /\ \E k \in Emitted : Row(k)[7] = doc /\ ~IsF2F(k)
          /\ \E k \in Emitted : Row(k)[7] = doc /\ IsF2F(k) /\ Row(k)[5] = "LECTURE"
          /\ \E k \in Emitted :
                Row(k)[7] = doc /\ Row(k)[5] = "SECTION" /\ ev_by_id(k[2]).duration = 2

\* C10: with invalid input solve aborts with a validation error before any
\* decision variable is created, and posts no constraint.
C10_ValidationBeforeEncoding ==
    InvalidInput =>
        /\ x_f2f = {} /\ x_vcr = {} /\ x_pair = {} /\ day_ind = {}
        /\ model = EmptyModel
        /\ pc \notin {"solve", "extract", "done"}

(***************************************************************************)
(* The scenarios on the reference inputs.                                  *)
(***************************************************************************)
ScenarioA == ReferenceInput({})

\* The model is complete: every constraint of lines 253-408 is posted
Built == pc \in {"solve", "extract", "done", "returned"}

\* solve() is past the solver call
Solved == pc \in {"extract", "done", "returned"}

\* C11: with the reference inputs of Scenario A the constraint model has a
\* satisfying assignment, so the solve, when the solver answers within its
\* time limit, ends OPTIMAL or FEASIBLE and every generated event is placed.
C11_ScenarioAFeasible ==
    ScenarioA =>
        /\ Built => \E T \in Candidates : Satisfies(T, model)
        /\ res # "INFEASIBLE"
        /\ (Solved /\ res # "UNKNOWN") =>
              /\ res \in {"OPTIMAL", "FEASIBLE"}
              /\ Satisfies(value, model)
              /\ \A ev \in EventSet : RowsOf(ev.eid) # {}
        /\ Done => \A ev \in EventSet : \E k \in RowsOf(ev.eid) : Row(k) \in Range(placements)

\* the solve on the reference inputs ended with a schedule of every event,
\* lectures face to face and remote and 2-hour sections among them
C11_Witness ==
    /\ ScenarioA
    /\ Done
    /\ res = "OPTIMAL"
    /\ Len(events) > 0
    /\ \A ev \in EventSet : RowsOf(ev.eid) # {}
    /\ Len(placements) = Cardinality(Emitted)
    /\ \E k \in Emitted : ~IsF2F(k)
    /\ \E k \in Emitted : IsF2F(k) /\ ev_by_id(k[2]).duration = 2

ScenarioF == ReferenceInput(DoctorIds)

\* C12: with the reference inputs changed so that every instructor works on
\* Sun only, the model has no satisfying assignment (the sections S4..S6 have
\* no candidate, and an empty sum is never 1): the solve ends with a
\* non-success status, INFEASIBLE when the solver answers, and no placement
\* row at all is emitted.
C12_AllSunInfeasible ==
    ScenarioF =>
        /\ Built => /\ {} \in model.eq1
                    /\ \A T \in Candidates \cup {{}, x_f2f \cup x_vcr \cup x_pair \cup day_ind} :
                          ~Satisfies(T, model)
        /\ res \notin {"OPTIMAL", "FEASIBLE"}
        /\ (Solved /\ res # "UNKNOWN") => res = "INFEASIBLE"
        /\ pc \notin {"extract", "done"}
        /\ value = {}
        /\ placements = <<>>

\* the solver has reported the infeasibility, after variables were created
\* for the lectures and the sections S1..S3 on Sun
C12_Witness ==
    /\ ScenarioF
    /\ pc = "returned"
    /\ res = "INFEASIBLE"
    /\ x_vcr # {}
    /\ \E ev \in Sections : placed_vars[ev.eid] # {}
    /\ \E ev \in Sections : placed_vars[ev.eid] = {}

\* The subjects and the section groups of the source
ReferenceSubjects ==
    /\ subjects = <<SubjALG, SubjNET, SubjDS>>
    /\ subject_branch = SampleBranch
    /\ SECTION_GROUPS_AC = <<"S1", "S2", "S3">>
    /\ SECTION_GROUPS_BD = <<"S4", "S5", "S6">>

\* Event generation is over
Generated == pc # "generate"

EventsOf(etype, subject_id, bucket) ==
    {i \in 1..Len(events) : /\ events[i].etype = etype
                            /\ events[i].subject_id = subject_id
                            /\ events[i].group_bucket = bucket}

\* One AB and one CD lecture event per lecture occurrence, six section events
\* S1..S6 per subject, and no identifier twice
EventsAsGenerated ==
    /\ \A s \in Range(subjects) :
          /\ Cardinality(EventsOf("LECTURE", s.id, "AB")) = s.lecture_occurrences
          /\ Cardinality(EventsOf("LECTURE", s.id, "CD")) = s.lecture_occurrences
          /\ \A sname \in {"S1", "S2", "S3", "S4", "S5", "S6"} :
                Cardinality(EventsOf("SECTION", s.id, sname)) = 1
    /\ \A i \in 1..Len(events) :
          events[i].group_bucket \in {"AB", "CD", "S1", "S2", "S3", "S4", "S5", "S6"}
    /\ Len(lecture_pairs) = Cardinality(Lectures) \div 2
    /\ \A i \in 1..Len(lecture_pairs) :
          /\ ev_by_id(lecture_pairs[i][2]).group_bucket = "AB"
          /\ ev_by_id(lecture_pairs[i][3]).group_bucket = "CD"
          /\ ev_by_id(lecture_pairs[i][2]).subject_id = ev_by_id(lecture_pairs[i][3]).subject_id
    /\ \A i \in 1..Len(events), j \in 1..Len(events) :
          i # j => events[i].eid # events[j].eid

\* C13 as stated: for the reference inputs event generation produces exactly
\* 24 events, one AB and one CD lecture event per lecture occurrence and six
\* section events per subject, all with distinct identifiers.
C13_TwentyFourEvents ==
    (ReferenceSubjects /\ Generated) => (Len(events) = 24 /\ EventsAsGenerated)

\* C13 amended: for the reference inputs event generation produces exactly 26
\* events: 8 lecture events (one AB and one CD per occurrence: 2 occurrences
\* of Algorithms, 1 of Networks, 1 of Data Science) and 18 section events
\* (S1..S6 per subject), all with distinct identifiers.
C13_TwentySixEvents ==
    (ReferenceSubjects /\ Generated) =>
        /\ Len(events) = 26
        /\ Cardinality(Lectures) = 8
        /\ Cardinality(Sections) = 18
        /\ Cardinality({ev.eid : ev \in EventSet}) = 26
        /\ EventsAsGenerated

\* event generation has run on the reference inputs, Algorithms with two
\* lecture occurrences
C13_Witness ==
    /\ ScenarioA
    /\ pc = "place"
    /\ ev_i = 1
    /\ events # <<>>
    /\ Cardinality(EventsOf("LECTURE", "S-ALG", "AB")) = 2
    /\ Cardinality(EventsOf("LECTURE", "S-NET", "AB")) = 1

\* C14: in every extracted schedule the AB event and the CD event of one
\* lecture occurrence are never placed at the same hour of their shared day:
\* they have the same instructor and the same level, and a (day, hour) admits
\* one event per instructor and per level.
C14_PairDifferentHours ==
    Done => \A i \in 1..Len(lecture_pairs) :
                LET ab == ev_by_id(lecture_pairs[i][2])
                    cd == ev_by_id(lecture_pairs[i][3])
                IN  /\ ab.doctor_id = cd.doctor_id
                    /\ ab.level = cd.level
                    /\ \A ka \in RowsOf(ab.eid), kc \in RowsOf(cd.eid) :
                          /\ Row(ka) \in Range(placements)
                          /\ Row(kc) \in Range(placements)
                          /\ ~(RowDay(ka) = RowDay(kc) /\ RowHour(ka) = RowHour(kc))

\* one event of a pair is remote and the other face to face, on a day with
\* more hours than the pair needs
C14_Witness ==
    /\ Done
    /\ END_HOUR - START_HOUR >= 3
    /\ \E i \in 1..Len(lecture_pairs) :
          \E ka \in RowsOf(lecture_pairs[i][2]), kc \in RowsOf(lecture_pairs[i][3]) :
              /\ IsF2F(ka) # IsF2F(kc)
              /\ RowDay(ka) = RowDay(kc)
              /\ RowHour(ka) > RowHour(kc) + 1
====
